---- MODULE Spec2Model ----
(***************************************************************************)
(* The typed event accessors of piston's `input` crate (mouse.rs,          *)
(* resize.rs, text.rs, lib.rs) over the GenericEvent capability.           *)
(*                                                                         *)
(* Rust values are written as follows.  An enum value is a tuple whose     *)
(* first element is the variant name and whose other elements are the      *)
(* variant's positional fields; Option is <<"None">> / <<"Some", v>>; a    *)
(* panic that unwinds out of a call is the value <<"Panic", message>>;     *)
(* a tuple (a, b) is <<a, b>>; an array [a, b] is a function on 0..1; a    *)
(* String / &str is a sequence of characters; a `&Any` is the pair of the  *)
(* TypeId of the erased value and the value.                               *)
(***************************************************************************)
EXTENDS Integers, Sequences, FiniteSets, TLC

VARIABLES
    ev,      \* ev[t]: the event thread t holds, with the call that built it
    origin,  \* origin[t]: the event thread t was given
    pc,      \* pc[t]: where thread t is in the call it is making
    frame,   \* frame[t]: the call thread t made last (or is making)
    ret,     \* ret[t]: what that call returned
    visits,  \* visits[t]: how often that call has invoked its visitor
    menu,    \* menu[t]: the calls thread t's code makes
    conv     \* the MouseButton conversion under way

vars == <<ev, origin, pc, frame, ret, visits, menu, conv>>

(***************************************************************************)
(* Bounds of the model.                                                    *)
(***************************************************************************)
\* Texts have at most MaxText characters.
MaxText == 1
\* u32 button numbers are drawn from 0..MaxN.
MaxN == 40

Threads == {1, 2}

\* Coordinates and dimensions are carried, never computed with: two sample
\* values of each (0.0 and 1.0; 0 and 1) tell every position from the others.
F64 == {0, 1}
U32Dim == {0, 1}
Chars == {"h", "i"}
Str == UNION {[1..n -> Chars] : n \in 0..MaxText}
U32 == 0..MaxN

(***************************************************************************)
(* Option, panic, tuple, array.                                            *)
(***************************************************************************)
None == <<"None">>
Some(v) == <<"Some", v>>
Panic(msg) == <<"Panic", msg>>
IsSome(r) == r[1] = "Some"
IsNone(r) == r[1] = "None"
IsPanic(r) == r[1] = "Panic"
\* The outcome of evaluating an expression: its value, or the panic that
\* unwinds out of it.
Val(v) == <<"Val", v>>
\* Some(expr): the panic of expr, if any, passes through.
SomeOf(r) == IF r[1] = "Panic" THEN r ELSE Some(r[2])
unwrap(r) == r[2]

Array2(a, b) == [i \in 0..1 |-> IF i = 0 THEN a ELSE b]

\* str::to_owned: a fresh String holding the characters of the slice.
to_owned(text) == [i \in 1..Len(text) |-> text[i]]

(***************************************************************************)
(* lib.rs: EventId and its constants.                                      *)
(***************************************************************************)
EventId(s) == s
AFTER_RENDER == EventId("piston/after_render")
CONTROLLER_AXIS == EventId("piston/controller_axis")
CURSOR == EventId("piston/cursor")
FOCUS == EventId("piston/focus")
IDLE == EventId("piston/idle")
MOUSE_SCROLL == EventId("piston/mouse_scroll")
MOUSE_RELATIVE == EventId("piston/mouse_relative")
MOUSE_CURSOR == EventId("piston/mouse_cursor")
PRESS == EventId("piston/press")
RELEASE == EventId("piston/release")
RENDER == EventId("piston/render")
RESIZE == EventId("piston/resize")
TEXT == EventId("piston/text")
TOUCH == EventId("piston/touch")
UPDATE == EventId("piston/update")

EventIds == {AFTER_RENDER, CONTROLLER_AXIS, CURSOR, FOCUS, IDLE, MOUSE_SCROLL,
             MOUSE_RELATIVE, MOUSE_CURSOR, PRESS, RELEASE, RENDER, RESIZE,
             TEXT, TOUCH, UPDATE}

(***************************************************************************)
(* std::any::Any: a value with the TypeId it was erased from.              *)
(***************************************************************************)
T_F64x2 == "(f64, f64)"
T_U32x2 == "(u32, u32)"
T_String == "String"
T_bool == "bool"
T_Button == "Button"
T_ControllerAxisArgs == "ControllerAxisArgs"
T_TouchArgs == "TouchArgs"
T_RenderArgs == "RenderArgs"
T_AfterRenderArgs == "AfterRenderArgs"
T_UpdateArgs == "UpdateArgs"
T_IdleArgs == "IdleArgs"

AsAny(type, value) == <<type, value>>
TypeOf(any) == any[1]
ValueOf(any) == any[2]
downcast_ref(any, type) == IF TypeOf(any) = type THEN Some(ValueOf(any)) ELSE None

(***************************************************************************)
(* mouse.rs: MouseButton and its conversions.                              *)
(***************************************************************************)
MouseButton == {"Unknown", "Left", "Right", "Middle", "X1", "X2",
                "Button6", "Button7", "Button8"}

\* From<u32> numbering the buttons after Left one too high.
MouseButton_from_shifted(n) ==
    CASE n = 0 -> "Unknown"
      [] n = 1 -> "Left"
      [] n = 3 -> "Right"
      [] n = 4 -> "Middle"
      [] n = 5 -> "X1"
      [] n = 6 -> "X2"
      [] n = 7 -> "Button6"
      [] n = 8 -> "Button7"
      [] n = 9 -> "Button8"
      [] OTHER -> "Unknown"

\* impl From<u32> for MouseButton
MouseButton_from(n) ==
    CASE n = 0 -> "Unknown"
      [] n = 1 -> "Left"
      [] n = 2 -> "Right"
      [] n = 3 -> "Middle"
      [] n = 4 -> "X1"
      [] n = 5 -> "X2"
      [] n = 6 -> "Button6"
      [] n = 7 -> "Button7"
      [] n = 8 -> "Button8"
      [] OTHER -> "Unknown"

\* impl From<MouseButton> for u32
u32_from(button) ==
    CASE button = "Unknown" -> 0
      [] button = "Left" -> 1
      [] button = "Right" -> 2
      [] button = "Middle" -> 3
      [] button = "X1" -> 4
      [] button = "X2" -> 5
      [] button = "Button6" -> 6
      [] button = "Button7" -> 7
      [] button = "Button8" -> 8

(***************************************************************************)
(* lib.rs: Button, Motion, Input.  Key, ControllerButton,                  *)
(* ControllerAxisArgs and TouchArgs are opaque values.                     *)
(***************************************************************************)
Button == {<<"Keyboard", "Key::A">>, <<"Mouse", "Left">>,
           <<"Controller", "ControllerButton">>}

Motion ==
    {<<"MouseCursor", x, y>> : x \in F64, y \in F64}
    \cup {<<"MouseRelative", x, y>> : x \in F64, y \in F64}
    \cup {<<"MouseScroll", x, y>> : x \in F64, y \in F64}
    \cup {<<"ControllerAxis", "ControllerAxisArgs">>}
    \cup {<<"Touch", "TouchArgs">>}

Input ==
    {<<"Press", b>> : b \in Button}
    \cup {<<"Release", b>> : b \in Button}
    \cup {<<"Move", m>> : m \in Motion}
    \cup {<<"Text", s>> : s \in Str}
    \cup {<<"Resize", a, b>> : a \in U32Dim, b \in U32Dim}
    \cup {<<"Focus", b>> : b \in BOOLEAN}
    \cup {<<"Cursor", b>> : b \in BOOLEAN}

(***************************************************************************)
(* The GenericEvent capability (spec section 4.3): event_id, with_args and *)
(* from_args of the concrete event types.  An event value is a tuple of   *)
(* its concrete type and the value of that type:                           *)
(*   Input - the reference enum of lib.rs;                                 *)
(*   Event - the wrapper that adds the loop events to Input;               *)
(*   Host  - a host application's own event type: it stores the tag and    *)
(*           the payload it is given beside a context of its own (ctx);    *)
(*   Mouse - a restricted host type that represents the mouse kinds only.  *)
(***************************************************************************)
InputEvent(i) == <<"Input", i>>
WrappedEvent(e) == <<"Event", e>>
HostEvent(id, any, ctx) == <<"Host", id, any, ctx>>
MouseOnlyEvent(id, any) == <<"Mouse", id, any>>

MouseKinds == {MOUSE_CURSOR, MOUSE_RELATIVE, MOUSE_SCROLL}
HostCtx == {"ctx0", "ctx1"}

\* GenericEvent::event_id for Input: the tag of the active variant.
Input_event_id(i) ==
    CASE i[1] = "Cursor" -> CURSOR
      [] i[1] = "Focus" -> FOCUS
      [] i[1] = "Press" -> PRESS
      [] i[1] = "Release" -> RELEASE
      [] i[1] = "Text" -> TEXT
      [] i[1] = "Resize" -> RESIZE
      [] i[1] = "Move" ->
            CASE i[2][1] = "MouseCursor" -> MOUSE_CURSOR
              [] i[2][1] = "MouseRelative" -> MOUSE_RELATIVE
              [] i[2][1] = "MouseScroll" -> MOUSE_SCROLL
              [] i[2][1] = "ControllerAxis" -> CONTROLLER_AXIS
              [] i[2][1] = "Touch" -> TOUCH

\* The payload GenericEvent::with_args of Input hands to its visitor.
Input_args(i) ==
    CASE i[1] = "Cursor" -> AsAny(T_bool, i[2])
      [] i[1] = "Focus" -> AsAny(T_bool, i[2])
      [] i[1] = "Press" -> AsAny(T_Button, i[2])
      [] i[1] = "Release" -> AsAny(T_Button, i[2])
      [] i[1] = "Text" -> AsAny(T_String, i[2])
      [] i[1] = "Resize" -> AsAny(T_U32x2, <<i[2], i[3]>>)
      [] i[1] = "Move" ->
            CASE i[2][1] = "MouseCursor" -> AsAny(T_F64x2, <<i[2][2], i[2][3]>>)
              [] i[2][1] = "MouseRelative" -> AsAny(T_F64x2, <<i[2][2], i[2][3]>>)
              [] i[2][1] = "MouseScroll" -> AsAny(T_F64x2, <<i[2][2], i[2][3]>>)
              [] i[2][1] = "ControllerAxis" -> AsAny(T_ControllerAxisArgs, i[2][2])
              [] i[2][1] = "Touch" -> AsAny(T_TouchArgs, i[2][2])

\* The variant of Input that id names, built from a payload of type type;
\* a payload of another type is the fatal mismatch of spec section 4.2.
Input_build(any, type, value) ==
    IF TypeOf(any) = type THEN Some(value) ELSE Panic("Expected " \o type)

\* GenericEvent::from_args for Input: Input has no state beyond the payload,
\* and represents every input kind; the loop kinds are not Input's.
Input_from_args(id, any) ==
    CASE id = CURSOR -> Input_build(any, T_bool, <<"Cursor", ValueOf(any)>>)
      [] id = FOCUS -> Input_build(any, T_bool, <<"Focus", ValueOf(any)>>)
      [] id = PRESS -> Input_build(any, T_Button, <<"Press", ValueOf(any)>>)
      [] id = RELEASE -> Input_build(any, T_Button, <<"Release", ValueOf(any)>>)
      [] id = TEXT -> Input_build(any, T_String, <<"Text", ValueOf(any)>>)
      [] id = RESIZE ->
            Input_build(any, T_U32x2, <<"Resize", ValueOf(any)[1], ValueOf(any)[2]>>)
      [] id = MOUSE_CURSOR ->
            Input_build(any, T_F64x2,
                        <<"Move", <<"MouseCursor", ValueOf(any)[1], ValueOf(any)[2]>>>>)
      [] id = MOUSE_RELATIVE ->
            Input_build(any, T_F64x2,
                        <<"Move", <<"MouseRelative", ValueOf(any)[1], ValueOf(any)[2]>>>>)
      [] id = MOUSE_SCROLL ->
            Input_build(any, T_F64x2,
                        <<"Move", <<"MouseScroll", ValueOf(any)[1], ValueOf(any)[2]>>>>)
      [] id = CONTROLLER_AXIS ->
            Input_build(any, T_ControllerAxisArgs,
                        <<"Move", <<"ControllerAxis", ValueOf(any)>>>>)
      [] id = TOUCH ->
            Input_build(any, T_TouchArgs, <<"Move", <<"Touch", ValueOf(any)>>>>)
      [] OTHER -> None

LoopVariant(id) ==
    CASE id = RENDER -> "Render"
      [] id = AFTER_RENDER -> "AfterRender"
      [] id = UPDATE -> "Update"
      [] id = IDLE -> "Idle"

LoopType(id) ==
    CASE id = RENDER -> T_RenderArgs
      [] id = AFTER_RENDER -> T_AfterRenderArgs
      [] id = UPDATE -> T_UpdateArgs
      [] id = IDLE -> T_IdleArgs

LoopIds == {RENDER, AFTER_RENDER, UPDATE, IDLE}

\* GenericEvent::event_id
event_id(self) ==
    CASE self[1] = "Input" -> Input_event_id(self[2])
      [] self[1] = "Event" ->
            IF self[2][1] = "Input" THEN Input_event_id(self[2][2])
            ELSE CHOOSE id \in LoopIds : LoopVariant(id) = self[2][1]
      [] self[1] = "Host" -> self[2]
      [] self[1] = "Mouse" -> self[2]

\* The payload GenericEvent::with_args lends to its visitor.
payload(self) ==
    CASE self[1] = "Input" -> Input_args(self[2])
      [] self[1] = "Event" ->
            IF self[2][1] = "Input" THEN Input_args(self[2][2])
            ELSE AsAny(LoopType(event_id(self)), self[2][2])
      [] self[1] = "Host" -> self[3]
      [] self[1] = "Mouse" -> self[3]

\* GenericEvent::with_args: the visitor is called once, on the borrowed
\* payload, and what it returns (or the panic it raises) is the result.
with_args(self, f(_)) == f(payload(self))

\* GenericEvent::from_args: a new value of old_event's type, tagged id and
\* carrying the payload; what the type holds beside the payload is copied
\* from old_event.  None when the type cannot represent the kind.
from_args(id, any, old_event) ==
    CASE old_event[1] = "Input" ->
            LET r == Input_from_args(id, any)
            IN  IF r[1] = "Some" THEN Some(InputEvent(r[2])) ELSE r
      [] old_event[1] = "Event" ->
            IF id \in LoopIds
            THEN IF TypeOf(any) = LoopType(id)
                 THEN Some(WrappedEvent(<<LoopVariant(id), ValueOf(any)>>))
                 ELSE Panic("Expected " \o LoopType(id))
            ELSE LET r == Input_from_args(id, any)
                 IN  IF r[1] = "Some" THEN Some(WrappedEvent(<<"Input", r[2]>>))
                     ELSE r
      [] old_event[1] = "Host" -> Some(HostEvent(id, any, old_event[4]))
      [] old_event[1] = "Mouse" ->
            IF id \in MouseKinds THEN Some(MouseOnlyEvent(id, any)) ELSE None

\* What an event value holds beside its kind and payload.
ancillary(self) ==
    CASE self[1] = "Host" -> <<self[4]>>
      [] OTHER -> <<>>

(***************************************************************************)
(* The typed constructors (mouse.rs, resize.rs, text.rs).                  *)
(***************************************************************************)
\* MouseCursorEvent::from_xy with the coordinates erased in the wrong order.
MouseCursorEvent_from_xy_swapped(x, y, old_event) ==
    from_args(MOUSE_CURSOR, AsAny(T_F64x2, <<y, x>>), old_event)

\* MouseCursorEvent::from_xy
MouseCursorEvent_from_xy(x, y, old_event) ==
    from_args(MOUSE_CURSOR, AsAny(T_F64x2, <<x, y>>), old_event)

\* MouseRelativeEvent::from_xy building on a blank event, not on old_event.
MouseRelativeEvent_from_xy_blank(x, y, old_event) ==
    from_args(MOUSE_RELATIVE, AsAny(T_F64x2, <<x, y>>),
              IF old_event[1] = "Host"
              THEN HostEvent(old_event[2], old_event[3], "ctx0")
              ELSE old_event)

\* MouseRelativeEvent::from_xy
MouseRelativeEvent_from_xy(x, y, old_event) ==
    from_args(MOUSE_RELATIVE, AsAny(T_F64x2, <<x, y>>), old_event)

\* MouseScrollEvent::from_xy
MouseScrollEvent_from_xy(x, y, old_event) ==
    from_args(MOUSE_SCROLL, AsAny(T_F64x2, <<x, y>>), old_event)

\* ResizeEvent::from_width_height with the dimensions erased as (h, w).
from_width_height_swapped(w, h, old_event) ==
    from_args(RESIZE, AsAny(T_U32x2, <<h, w>>), old_event)

\* ResizeEvent::from_width_height
from_width_height(w, h, old_event) ==
    from_args(RESIZE, AsAny(T_U32x2, <<w, h>>), old_event)

\* TextEvent::from_text erasing the borrowed slice instead of an owned String.
from_text_borrowed(text, old_event) ==
    from_args(TEXT, AsAny("&str", text), old_event)

\* TextEvent::from_text
from_text(text, old_event) ==
    from_args(TEXT, AsAny(T_String, to_owned(text)), old_event)

(***************************************************************************)
(* The visitors callers pass to the mapping operations: the closure of the *)
(* *_args accessors, and the closures of the tests, which rebuild the      *)
(* event from the payload with the event a they captured as old_event.     *)
(***************************************************************************)
\* |x, y| [x, y]
PackXY == [fn |-> "pack"]
\* |text| text.to_owned()
ToOwned == [fn |-> "to_owned"]
\* |x, y| <constructor>(x, y, a)
Rebuild(ctor, a) == [fn |-> ctor, a |-> a]
\* |x, y| (x, y) and |text| text: the visitor that hands back what it is given
Capture == [fn |-> "capture"]

\* The outcome of expr when expr is a call that may unwind.
Outcome(r) == IF r[1] = "Panic" THEN r ELSE Val(r)

\* f(a1, a2) for a visitor of two arguments.
invoke2(f, a1, a2) ==
    CASE f.fn = "pack" -> Val(Array2(a1, a2))
      [] f.fn = "capture" -> Val(<<a1, a2>>)
      [] f.fn = "MouseCursorEvent::from_xy" ->
            Outcome(MouseCursorEvent_from_xy(a1, a2, f.a))
      [] f.fn = "MouseRelativeEvent::from_xy" ->
            Outcome(MouseRelativeEvent_from_xy(a1, a2, f.a))
      [] f.fn = "MouseScrollEvent::from_xy" ->
            Outcome(MouseScrollEvent_from_xy(a1, a2, f.a))
      [] f.fn = "ResizeEvent::from_width_height" ->
            Outcome(from_width_height(a1, a2, f.a))

\* f(text) for a visitor of a string slice.
invoke1(f, text) ==
    CASE f.fn = "to_owned" -> Val(to_owned(text))
      [] f.fn = "capture" -> Val(text)
      [] f.fn = "TextEvent::from_text" -> Outcome(from_text(text, f.a))

(***************************************************************************)
(* The mapping operations and the *_args accessors.  Each mapping          *)
(* operation is written in the three parts it runs in turn: the tag check, *)
(* the downcast of the payload with_args lends, and the call of the        *)
(* visitor.                                                                *)
(***************************************************************************)
\* mouse_cursor: `if self.event_id() != MOUSE_CURSOR { return None; }`
mouse_cursor_mismatch(self) == event_id(self) # MOUSE_CURSOR

\* mouse_cursor: `any.downcast_ref::<(f64, f64)>()`
mouse_cursor_downcast(any) == downcast_ref(any, T_F64x2)

\* mouse_cursor: the closure given to with_args
mouse_cursor_closure(any, f) ==
    LET d == mouse_cursor_downcast(any)
    IN  IF d # None THEN SomeOf(invoke2(f, d[2][1], d[2][2]))
        ELSE Panic("Expected (f64, f64)")

\* MouseCursorEvent::mouse_cursor
mouse_cursor(self, f) ==
    IF mouse_cursor_mismatch(self) THEN None
    ELSE with_args(self, LAMBDA any : mouse_cursor_closure(any, f))

\* MouseCursorEvent::mouse_cursor_args
mouse_cursor_args(self) == mouse_cursor(self, PackXY)

\* The tag check of mouse_relative comparing with the cursor kind's EventId.
mouse_relative_mismatch_cursor(self) == event_id(self) # MOUSE_CURSOR

\* mouse_relative: `if self.event_id() != MOUSE_RELATIVE { return None; }`
mouse_relative_mismatch(self) == event_id(self) # MOUSE_RELATIVE

\* mouse_relative: `any.downcast_ref::<(f64, f64)>()`
mouse_relative_downcast(any) == downcast_ref(any, T_F64x2)

\* mouse_relative: the closure given to with_args
mouse_relative_closure(any, f) ==
    LET d == mouse_relative_downcast(any)
    IN  IF d # None THEN SomeOf(invoke2(f, d[2][1], d[2][2]))
        ELSE Panic("Expected (f64, f64)")

\* MouseRelativeEvent::mouse_relative
mouse_relative(self, f) ==
    IF mouse_relative_mismatch(self) THEN None
    ELSE with_args(self, LAMBDA any : mouse_relative_closure(any, f))

\* MouseRelativeEvent::mouse_relative_args
mouse_relative_args(self) == mouse_relative(self, PackXY)

\* The tag check of mouse_scroll letting every event through.
mouse_scroll_mismatch_never(self) == FALSE

\* mouse_scroll: `if self.event_id() != MOUSE_SCROLL { return None; }`
mouse_scroll_mismatch(self) == event_id(self) # MOUSE_SCROLL

\* mouse_scroll: `any.downcast_ref::<(f64, f64)>()`
mouse_scroll_downcast(any) == downcast_ref(any, T_F64x2)

\* mouse_scroll: the closure given to with_args
mouse_scroll_closure(any, f) ==
    LET d == mouse_scroll_downcast(any)
    IN  IF d # None THEN SomeOf(invoke2(f, d[2][1], d[2][2]))
        ELSE Panic("Expected (f64, f64)")

\* MouseScrollEvent::mouse_scroll
mouse_scroll(self, f) ==
    IF mouse_scroll_mismatch(self) THEN None
    ELSE with_args(self, LAMBDA any : mouse_scroll_closure(any, f))

\* mouse_scroll_args reading through the cursor kind's mapping operation.
mouse_scroll_args_cursor(self) == mouse_cursor(self, PackXY)

\* MouseScrollEvent::mouse_scroll_args
mouse_scroll_args(self) == mouse_scroll(self, PackXY)

\* resize: `if self.event_id() != RESIZE { return None; }`
resize_mismatch(self) == event_id(self) # RESIZE

\* resize: `any.downcast_ref::<(u32, u32)>()`
resize_downcast(any) == downcast_ref(any, T_U32x2)

\* The closure of resize returning None when the downcast fails.
resize_closure_silent(any, f) ==
    LET d == downcast_ref(any, T_U32x2)
    IN  IF d # None THEN SomeOf(invoke2(f, d[2][1], d[2][2])) ELSE None

\* resize: the closure given to with_args
resize_closure(any, f) ==
    LET d == resize_downcast(any)
    IN  IF d # None THEN SomeOf(invoke2(f, d[2][1], d[2][2]))
        ELSE Panic("Expected (u32, u32)")

\* ResizeEvent::resize
resize(self, f) ==
    IF resize_mismatch(self) THEN None
    ELSE with_args(self, LAMBDA any : resize_closure(any, f))

\* ResizeEvent::resize_args packing the height before the width.
resize_args_swapped(self) ==
    LET r == resize(self, Capture)
    IN  IF IsSome(r) THEN Some(Array2(r[2][2], r[2][1])) ELSE r

\* ResizeEvent::resize_args
resize_args(self) == resize(self, PackXY)

\* The tag check of text letting every event but a text event through.
text_mismatch_inverted(self) == event_id(self) = TEXT

\* text: `if self.event_id() != TEXT { return None; }`
text_mismatch(self) == event_id(self) # TEXT

\* text: `any.downcast_ref::<String>()`
text_downcast(any) == downcast_ref(any, T_String)

\* text: the closure given to with_args
text_closure(any, f) ==
    LET d == text_downcast(any)
    IN  IF d # None THEN SomeOf(invoke1(f, d[2]))
        ELSE Panic("Expected &str")

\* TextEvent::text
text(self, f) ==
    IF text_mismatch(self) THEN None
    ELSE with_args(self, LAMBDA any : text_closure(any, f))

\* TextEvent::text_args
text_args(self) == text(self, ToOwned)

(***************************************************************************)
(* The calls a thread makes.                                               *)
(***************************************************************************)
XYConstructors == {"MouseCursorEvent::from_xy", "MouseRelativeEvent::from_xy",
                   "MouseScrollEvent::from_xy"}
MapOps == {"mouse_cursor", "mouse_relative", "mouse_scroll", "resize", "text"}
ArgsOps == {"mouse_cursor_args", "mouse_relative_args", "mouse_scroll_args",
            "resize_args", "text_args"}

ConstructorCalls ==
    {[op |-> c, x |-> x, y |-> y] : c \in XYConstructors, x \in F64, y \in F64}
    \cup {[op |-> "ResizeEvent::from_width_height", w |-> w, h |-> h] :
              w \in U32Dim, h \in U32Dim}
    \cup {[op |-> "TextEvent::from_text", text |-> s] : s \in Str}

\* A mapping operation is called with the identity-like visitor of its
\* *_args accessor ("pack") or with the rebuilding visitor of the tests.
MapCalls == {[op |-> m, f |-> v] : m \in MapOps, v \in {"pack", "rebuild"}}
ArgsCalls == {[op |-> a] : a \in ArgsOps}
AllCalls == ConstructorCalls \cup MapCalls \cup ArgsCalls

\* The typed constructor a call names, applied to old_event.
Construct(c, old_event) ==
    CASE c.op = "MouseCursorEvent::from_xy" ->
            MouseCursorEvent_from_xy(c.x, c.y, old_event)
      [] c.op = "MouseRelativeEvent::from_xy" ->
            MouseRelativeEvent_from_xy(c.x, c.y, old_event)
      [] c.op = "MouseScrollEvent::from_xy" ->
            MouseScrollEvent_from_xy(c.x, c.y, old_event)
      [] c.op = "ResizeEvent::from_width_height" ->
            from_width_height(c.w, c.h, old_event)
      [] c.op = "TextEvent::from_text" -> from_text(c.text, old_event)

\* The constructor of the same trait as a mapping operation.
ConstructorOf(m) ==
    CASE m = "mouse_cursor" -> "MouseCursorEvent::from_xy"
      [] m = "mouse_relative" -> "MouseRelativeEvent::from_xy"
      [] m = "mouse_scroll" -> "MouseScrollEvent::from_xy"
      [] m = "resize" -> "ResizeEvent::from_width_height"
      [] m = "text" -> "TextEvent::from_text"

\* The mapping operation an *_args accessor calls.
MappingOf(a) ==
    CASE a = "mouse_cursor_args" -> "mouse_cursor"
      [] a = "mouse_relative_args" -> "mouse_relative"
      [] a = "mouse_scroll_args" -> "mouse_scroll"
      [] a = "resize_args" -> "resize"
      [] a = "text_args" -> "text"

\* The closure an *_args accessor passes to its mapping operation.
ArgsVisitor(m) == IF m = "text" THEN ToOwned ELSE PackXY

\* The visitor of a call of mapping operation m on the event self.
Visitor(m, v, self) ==
    IF v = "pack" THEN ArgsVisitor(m) ELSE Rebuild(ConstructorOf(m), self)

\* The three parts of mapping operation m.
Mismatch(m, self) ==
    CASE m = "mouse_cursor" -> mouse_cursor_mismatch(self)
      [] m = "mouse_relative" -> mouse_relative_mismatch(self)
      [] m = "mouse_scroll" -> mouse_scroll_mismatch(self)
      [] m = "resize" -> resize_mismatch(self)
      [] m = "text" -> text_mismatch(self)

Downcast(m, any) ==
    CASE m = "mouse_cursor" -> mouse_cursor_downcast(any)
      [] m = "mouse_relative" -> mouse_relative_downcast(any)
      [] m = "mouse_scroll" -> mouse_scroll_downcast(any)
      [] m = "resize" -> resize_downcast(any)
      [] m = "text" -> text_downcast(any)

Closure(m, any, f) ==
    CASE m = "mouse_cursor" -> mouse_cursor_closure(any, f)
      [] m = "mouse_relative" -> mouse_relative_closure(any, f)
      [] m = "mouse_scroll" -> mouse_scroll_closure(any, f)
      [] m = "resize" -> resize_closure(any, f)
      [] m = "text" -> text_closure(any, f)

\* Mapping operation m as one call.
Map(m, self, f) ==
    CASE m = "mouse_cursor" -> mouse_cursor(self, f)
      [] m = "mouse_relative" -> mouse_relative(self, f)
      [] m = "mouse_scroll" -> mouse_scroll(self, f)
      [] m = "resize" -> resize(self, f)
      [] m = "text" -> text(self, f)

\* The *_args accessor a as one call.
Args(a, self) ==
    CASE a = "mouse_cursor_args" -> mouse_cursor_args(self)
      [] a = "mouse_relative_args" -> mouse_relative_args(self)
      [] a = "mouse_scroll_args" -> mouse_scroll_args(self)
      [] a = "resize_args" -> resize_args(self)
      [] a = "text_args" -> text_args(self)

(***************************************************************************)
(* The events a thread is given to start from: one of each variant of      *)
(* Input, wrapped ones, a host's events with their context, and host       *)
(* events whose payload is not of the type their tag promises (the         *)
(* inconsistent implementation of spec section 7).                         *)
(***************************************************************************)
GivenInput ==
    {InputEvent(i) : i \in
        {<<"Press", <<"Mouse", "Left">>>>,
         <<"Release", <<"Keyboard", "Key::A">>>>,
         <<"Move", <<"MouseCursor", 0, 0>>>>,
         <<"Move", <<"MouseRelative", 0, 0>>>>,
         <<"Move", <<"MouseScroll", 0, 0>>>>,
         <<"Move", <<"ControllerAxis", "ControllerAxisArgs">>>>,
         <<"Move", <<"Touch", "TouchArgs">>>>,
         <<"Text", <<>>>>,
         <<"Resize", 0, 0>>,
         <<"Focus", TRUE>>,
         <<"Cursor", FALSE>>}}

GivenWrapped ==
    {WrappedEvent(e) : e \in
        {<<"Input", <<"Move", <<"MouseCursor", 0, 0>>>>>>,
         <<"Input", <<"Text", <<>>>>>>,
         <<"Input", <<"Resize", 0, 0>>>>,
         <<"Render", "RenderArgs">>,
         <<"Idle", "IdleArgs">>}}

GivenHost == {HostEvent(FOCUS, AsAny(T_bool, TRUE), c) : c \in HostCtx}

GivenInconsistent ==
    {HostEvent(MOUSE_CURSOR, AsAny(T_U32x2, <<0, 1>>), "ctx0"),
     HostEvent(MOUSE_RELATIVE, AsAny(T_String, <<"h">>), "ctx0"),
     HostEvent(MOUSE_SCROLL, AsAny(T_bool, TRUE), "ctx0"),
     HostEvent(RESIZE, AsAny(T_F64x2, <<0, 1>>), "ctx1"),
     HostEvent(TEXT, AsAny(T_U32x2, <<0, 1>>), "ctx1")}

GivenMouse == {MouseOnlyEvent(MOUSE_CURSOR, AsAny(T_F64x2, <<0, 0>>))}

Given == GivenInput \cup GivenWrapped \cup GivenHost \cup GivenInconsistent
         \cup GivenMouse

Entry(e, by) == [by |-> by, e |-> e]
GivenEntry(e) == Entry(e, [op |-> "given"])
NoCall == [op |-> "none"]
Unit == <<"Unit">>
Pending == <<"Pending">>

\* The event thread t calls its next operation on: the one it holds.
Self(t) == ev[t].e

(***************************************************************************)
(* Initial states.                                                         *)
(***************************************************************************)
Start(given, menus) ==
    /\ ev = [t \in Threads |-> GivenEntry(given[t])]
    /\ origin = given
    /\ pc = [t \in Threads |-> "idle"]
    /\ frame = [t \in Threads |-> NoCall]
    /\ ret = [t \in Threads |-> Unit]
    /\ visits = [t \in Threads |-> 0]
    /\ menu = menus

NoConv == [stage |-> "off"]

\* One thread makes any calls on any given event; the other makes none.
Init ==
    /\ \E g \in Given :
          Start([t \in Threads |-> IF t = 1 THEN g ELSE InputEvent(<<"Focus", TRUE>>)],
                [t \in Threads |-> IF t = 1 THEN AllCalls ELSE {}])
    /\ conv = NoConv

(***************************************************************************)
(* The steps of a thread.                                                  *)
(***************************************************************************)
CanCall(t) == pc[t] = "idle"

\* A typed constructor, called with the event the thread holds as
\* old_event.  The call borrows old_event and returns a new event, which
\* the thread goes on with (the unwrap of the tests); old_event is in the
\* frame of the call.
CallConstructor(t) ==
    /\ CanCall(t)
    /\ \E c \in menu[t] \cap ConstructorCalls :
          LET old_event == Self(t)
              r == Construct(c, old_event)
          IN  /\ frame' = [frame EXCEPT ![t] =
                             [op |-> c.op, call |-> c, old_event |-> old_event]]
              /\ ret' = [ret EXCEPT ![t] = r]
              /\ ev' = [ev EXCEPT ![t] = IF IsSome(r) THEN Entry(r[2], c) ELSE @]
              /\ pc' = [pc EXCEPT ![t] = IF IsPanic(r) THEN "panicked" ELSE "idle"]
    /\ visits' = [visits EXCEPT ![t] = 0]
    /\ UNCHANGED <<origin, menu, conv>>

\* A mapping operation is entered with the caller's visitor.
CallMap(t) ==
    /\ CanCall(t)
    /\ \E c \in menu[t] \cap MapCalls :
          frame' = [frame EXCEPT ![t] =
                      [op |-> c.op, f |-> Visitor(c.op, c.f, Self(t)),
                       via |-> "direct"]]
    /\ pc' = [pc EXCEPT ![t] = "check"]
    /\ ret' = [ret EXCEPT ![t] = Pending]
    /\ visits' = [visits EXCEPT ![t] = 0]
    /\ UNCHANGED <<ev, origin, menu, conv>>

\* An *_args accessor enters its mapping operation with its own closure.
CallArgs(t) ==
    /\ CanCall(t)
    /\ \E c \in menu[t] \cap ArgsCalls :
          frame' = [frame EXCEPT ![t] =
                      [op |-> MappingOf(c.op), f |-> ArgsVisitor(MappingOf(c.op)),
                       via |-> c.op]]
    /\ pc' = [pc EXCEPT ![t] = "check"]
    /\ ret' = [ret EXCEPT ![t] = Pending]
    /\ visits' = [visits EXCEPT ![t] = 0]
    /\ UNCHANGED <<ev, origin, menu, conv>>

\* The tag check leaving its None in a slot all threads share.
TagCheck_shared(t) ==
    /\ pc[t] = "check"
    /\ IF Mismatch(frame[t].op, Self(t))
       THEN /\ ret' = [u \in Threads |-> None]
            /\ pc' = [pc EXCEPT ![t] = "idle"]
       ELSE /\ pc' = [pc EXCEPT ![t] = "with_args"]
            /\ UNCHANGED ret
    /\ UNCHANGED <<ev, origin, frame, visits, menu, conv>>

\* The tag check: a different tag returns None at once.
TagCheck(t) ==
    /\ pc[t] = "check"
    /\ IF Mismatch(frame[t].op, Self(t))
       THEN /\ ret' = [ret EXCEPT ![t] = None]
            /\ pc' = [pc EXCEPT ![t] = "idle"]
       ELSE /\ pc' = [pc EXCEPT ![t] = "with_args"]
            /\ UNCHANGED ret
    /\ UNCHANGED <<ev, origin, frame, visits, menu, conv>>

\* with_args lends the payload to the closure, which downcasts it: a
\* payload of another type panics.
WithArgs(t) ==
    /\ pc[t] = "with_args"
    /\ LET any == payload(Self(t))
       IN  IF Downcast(frame[t].op, any) = None
           THEN /\ ret' = [ret EXCEPT ![t] = Closure(frame[t].op, any, frame[t].f)]
                /\ pc' = [pc EXCEPT ![t] = "panicked"]
           ELSE /\ pc' = [pc EXCEPT ![t] = "visit"]
                /\ UNCHANGED ret
    /\ UNCHANGED <<ev, origin, frame, visits, menu, conv>>

\* The closure calls the visitor on the typed payload and the mapping
\* operation returns Some of its result.
Visit(t) ==
    /\ pc[t] = "visit"
    /\ LET r == Closure(frame[t].op, payload(Self(t)), frame[t].f)
       IN  /\ ret' = [ret EXCEPT ![t] = r]
           /\ pc' = [pc EXCEPT ![t] = IF IsPanic(r) THEN "panicked" ELSE "idle"]
    /\ visits' = [visits EXCEPT ![t] = @ + 1]
    /\ UNCHANGED <<ev, origin, frame, menu, conv>>

Next ==
    \E t \in Threads :
        \/ CallConstructor(t)
        \/ CallMap(t)
        \/ CallArgs(t)
        \/ TagCheck(t)
        \/ WithArgs(t)
        \/ Visit(t)

Spec == Init /\ [][Next]_vars

(***************************************************************************)
(* Two threads, each with events and calls of its own.                     *)
(***************************************************************************)
ConcGiven ==
    {InputEvent(<<"Resize", 0, 0>>),
     HostEvent(FOCUS, AsAny(T_bool, TRUE), "ctx1"),
     HostEvent(RESIZE, AsAny(T_F64x2, <<0, 1>>), "ctx1")}

ConcMenus ==
    {{[op |-> "MouseCursorEvent::from_xy", x |-> 1, y |-> 0],
      [op |-> "mouse_cursor", f |-> "rebuild"],
      [op |-> "resize_args"]},
     {[op |-> "ResizeEvent::from_width_height", w |-> 0, h |-> 1],
      [op |-> "resize", f |-> "pack"],
      [op |-> "mouse_cursor_args"]}}

InitConc ==
    /\ \E g \in [Threads -> ConcGiven], m \in [Threads -> ConcMenus] : Start(g, m)
    /\ conv = NoConv

SpecConc == InitConc /\ [][Next]_vars

(***************************************************************************)
(* mouse.rs, test_mouse_button_primitives: a u32 is converted into a       *)
(* MouseButton and the MouseButton back into a u32.                        *)
(***************************************************************************)
InitButton ==
    /\ Start([t \in Threads |-> InputEvent(<<"Focus", TRUE>>)],
             [t \in Threads |-> {}])
    /\ conv \in {[stage |-> "given", n |-> n] : n \in U32}

\* let button: MouseButton = i.into();
Into ==
    /\ conv.stage = "given"
    /\ conv' = [stage |-> "button", n |-> conv.n,
                button |-> MouseButton_from(conv.n)]
    /\ UNCHANGED <<ev, origin, pc, frame, ret, visits, menu>>

\* let j: u32 = button.into();
Back ==
    /\ conv.stage = "button"
    /\ conv' = [stage |-> "u32", n |-> conv.n, button |-> conv.button,
                j |-> u32_from(conv.button)]
    /\ UNCHANGED <<ev, origin, pc, frame, ret, visits, menu>>

NextButton == Into \/ Back

SpecButton == InitButton /\ [][NextButton]_vars

(***************************************************************************)
(* What the claims speak of.                                               *)
(***************************************************************************)
ConstructorOps == XYConstructors \cup {"ResizeEvent::from_width_height",
                                       "TextEvent::from_text"}

\* The EventId of the kind of mapping operation m.
KindId(m) ==
    CASE m = "mouse_cursor" -> MOUSE_CURSOR
      [] m = "mouse_relative" -> MOUSE_RELATIVE
      [] m = "mouse_scroll" -> MOUSE_SCROLL
      [] m = "resize" -> RESIZE
      [] m = "text" -> TEXT

\* The payload type the kind of mapping operation m contracts.
KindType(m) ==
    CASE m \in {"mouse_cursor", "mouse_relative", "mouse_scroll"} -> T_F64x2
      [] m = "resize" -> T_U32x2
      [] m = "text" -> T_String

\* The *_args accessor of mapping operation m.
ArgsOf(m) == CHOOSE a \in ArgsOps : MappingOf(a) = m

\* The payload a constructor call was given, as the *_args accessor of its
\* kind packages it: [x, y], [w, h], or the text.
Packaged(c) ==
    CASE c.op \in XYConstructors -> Array2(c.x, c.y)
      [] c.op = "ResizeEvent::from_width_height" -> Array2(c.w, c.h)
      [] c.op = "TextEvent::from_text" -> c.text

\* The event thread t holds, with the call that built it.
Newest(t) == ev[t]
Entries(t) == {Newest(t)}
BuiltBy(en, op) == en.by.op = op

\* Thread t has run mapping operation m to its return.
Returned(t, m) == pc[t] = "idle" /\ frame[t].op = m

\* The visitors a mapping operation m is called with on event self.
Visitors(m, self) ==
    {ArgsVisitor(m), Rebuild(ConstructorOf(m), self), Capture}

\* What visitor f returns on the payload of self, a value of m's type.
Visited(m, self, f) ==
    LET p == ValueOf(payload(self))
    IN  IF m = "text" THEN invoke1(f, p) ELSE invoke2(f, p[1], p[2])

(***************************************************************************)
(* C1.  Round trip: an event built by the typed constructor of kind K from *)
(* any prior event, read with K's mapping operation and the identity-like  *)
(* visitor, or with K's *_args accessor, gives Some of the payload the     *)
(* constructor was given.                                                  *)
(***************************************************************************)
C1_RoundTrip ==
    \A t \in Threads :
        /\ \A en \in Entries(t) : \A m \in MapOps :
              BuiltBy(en, ConstructorOf(m)) =>
                  /\ Map(m, en.e, ArgsVisitor(m)) = Some(Packaged(en.by))
                  /\ Args(ArgsOf(m), en.e) = Some(Packaged(en.by))
        /\ \A m \in MapOps :
              (/\ Returned(t, m)
               /\ frame[t].f = ArgsVisitor(m)
               /\ BuiltBy(Newest(t), ConstructorOf(m)))
              => ret[t] = Some(Packaged(Newest(t).by))

\* A cursor event built at (1.0, 0.0) from a resize event has been read back
\* with mouse_cursor_args as [1.0, 0.0].
C1_Witness ==
    /\ origin[1] = InputEvent(<<"Resize", 0, 0>>)
    /\ ev[1].by = [op |-> "MouseCursorEvent::from_xy", x |-> 1, y |-> 0]
    /\ pc[1] = "idle"
    /\ frame[1].op = "mouse_cursor"
    /\ frame[1].via = "mouse_cursor_args"
    /\ ret[1] = Some(Array2(1, 0))

(***************************************************************************)
(* C2.  Tag exclusivity: an event built by the typed constructor of kind   *)
(* K1 gives None from the mapping operation and the *_args accessor of     *)
(* every other kind K2, the three mouse kinds included; the visitor is     *)
(* not called.                                                             *)
(***************************************************************************)
C2_TagExclusive ==
    \A t \in Threads :
        /\ \A en \in Entries(t) : \A m1 \in MapOps, m2 \in MapOps :
              (m1 # m2 /\ BuiltBy(en, ConstructorOf(m1))) =>
                  /\ \A f \in Visitors(m2, en.e) : Map(m2, en.e, f) = None
                  /\ Args(ArgsOf(m2), en.e) = None
        /\ \A m1 \in MapOps, m2 \in MapOps :
              (/\ m1 # m2
               /\ Returned(t, m2)
               /\ BuiltBy(Newest(t), ConstructorOf(m1)))
              => ret[t] = None /\ visits[t] = 0

\* A text event carrying "h" has given None from resize_args, or a cursor
\* event None from mouse_relative.
C2_Witness ==
    /\ pc[1] = "idle"
    /\ ret[1] = None
    /\ \/ /\ Newest(1).by = [op |-> "TextEvent::from_text", text |-> <<"h">>]
          /\ frame[1].op = "resize"
       \/ /\ BuiltBy(Newest(1), "MouseCursorEvent::from_xy")
          /\ frame[1].op = "mouse_relative"

(***************************************************************************)
(* C3.  Kind mismatch is an ordinary result: a mapping operation returns   *)
(* None exactly when the event's event_id() is not its kind's EventId;     *)
(* with a different tag it returns None and does not panic, and with the   *)
(* same tag and a payload of the kind's type it returns Some of what the   *)
(* visitor returns.                                                        *)
(***************************************************************************)
C3_MismatchIsNone ==
    \A t \in Threads :
        /\ \A en \in Entries(t) : \A m \in MapOps : \A f \in Visitors(m, en.e) :
              /\ (Map(m, en.e, f) = None) <=> (event_id(en.e) # KindId(m))
              /\ (event_id(en.e) = KindId(m) /\ TypeOf(payload(en.e)) = KindType(m))
                    => Map(m, en.e, f) = SomeOf(Visited(m, en.e, f))
        /\ \A m \in MapOps :
              Returned(t, m) =>
                  /\ (ret[t] = None) <=> (event_id(Self(t)) # KindId(m))
                  /\ event_id(Self(t)) = KindId(m)
                        => ret[t] = SomeOf(Visited(m, Self(t), frame[t].f))
        /\ (pc[t] = "panicked" /\ frame[t].op \in MapOps)
              => event_id(Self(t)) = KindId(frame[t].op)

\* A mapping operation has returned None on an event of another kind.
C3_Witness ==
    /\ pc[1] = "idle"
    /\ frame[1].op = "text"
    /\ event_id(Self(1)) = RESIZE
    /\ ret[1] = None
    /\ visits[1] = 0

(***************************************************************************)
(* C4.  An event whose tag is kind K's and whose payload is not of K's     *)
(* type makes K's mapping operation panic: it returns neither None nor     *)
(* Some, and the visitor is not called.                                    *)
(***************************************************************************)
Inconsistent(m, self) ==
    event_id(self) = KindId(m) /\ TypeOf(payload(self)) # KindType(m)

C4_InvariantViolationFatal ==
    \A t \in Threads :
        /\ \A en \in Entries(t) : \A m \in MapOps : \A f \in Visitors(m, en.e) :
              Inconsistent(m, en.e) => IsPanic(Map(m, en.e, f))
        /\ \A m \in MapOps :
              (frame[t].op = m /\ Inconsistent(m, Self(t))) =>
                  /\ pc[t] \in {"check", "with_args", "panicked"}
                  /\ visits[t] = 0
                  /\ ~IsNone(ret[t]) /\ ~IsSome(ret[t])
                  /\ pc[t] = "panicked" => IsPanic(ret[t])

\* resize has panicked on an event tagged RESIZE that holds an (f64, f64).
C4_Witness ==
    /\ pc[1] = "panicked"
    /\ frame[1].op = "resize"
    /\ Self(1) = HostEvent(RESIZE, AsAny(T_F64x2, <<0, 1>>), "ctx1")
    /\ ret[1] = Panic("Expected (u32, u32)")
    /\ visits[1] = 0

(***************************************************************************)
(* C5.  Constructors of the reference types never fail: on an Input or an  *)
(* Event of any variant as old_event, every typed constructor returns      *)
(* Some for every payload.                                                 *)
(***************************************************************************)
Reference(self) == self[1] \in {"Input", "Event"}

C5_ConstructorsNeverFail ==
    \A t \in Threads :
        /\ \A en \in Entries(t) : \A c \in ConstructorCalls :
              Reference(en.e) => IsSome(Construct(c, en.e))
        /\ (frame[t].op \in ConstructorOps /\ Reference(Self(t)))
              => /\ IsSome(ret[t])
                 /\ ret[t][2] = Self(t)
                 /\ Newest(t).by = frame[t].call

\* from_text has returned Some on a wrapped render event as old_event.
C5_Witness ==
    /\ frame[1].op = "TextEvent::from_text"
    /\ frame[1].call.text = <<"h">>
    /\ frame[1].old_event = WrappedEvent(<<"Render", "RenderArgs">>)
    /\ ret[1] = Some(WrappedEvent(<<"Input", <<"Text", <<"h">>>>>>))
    /\ Self(1) = WrappedEvent(<<"Input", <<"Text", <<"h">>>>>>)

(***************************************************************************)
(* C6.  The *_args accessors agree with the mapping operations: an         *)
(* accessor returns None exactly when its mapping operation does, panics   *)
(* exactly when it does, and otherwise returns Some of the payload the     *)
(* mapping operation passes to its visitor, packaged as [x, y], [w, h] or  *)
(* an owned copy of the text.                                              *)
(***************************************************************************)
\* The plain value an accessor makes of what the visitor is passed.
Plain(m, passed) ==
    IF m = "text" THEN to_owned(passed) ELSE Array2(passed[1], passed[2])

C6_ArgsAgreeWithMapping ==
    \A t \in Threads :
        /\ \A en \in Entries(t) : \A m \in MapOps :
              LET a == Args(ArgsOf(m), en.e)
                  seen == Map(m, en.e, Capture)
              IN  /\ \A f \in Visitors(m, en.e) :
                        /\ IsNone(a) <=> IsNone(Map(m, en.e, f))
                        /\ IsPanic(a) <=> IsPanic(Map(m, en.e, f))
                  /\ IsSome(seen) => a = Some(Plain(m, seen[2]))
        /\ \A m \in MapOps :
              (frame[t].op = m /\ frame[t].via # "direct"
               /\ pc[t] \in {"idle", "panicked"})
              => ret[t] = Args(frame[t].via, Self(t))

\* text_args has returned an owned copy of the text of a text event.
C6_Witness ==
    /\ pc[1] = "idle"
    /\ frame[1].op = "text"
    /\ frame[1].via = "text_args"
    /\ Self(1) = InputEvent(<<"Text", <<"i">>>>)
    /\ ret[1] = Some(<<"i">>)
    /\ visits[1] = 1

(***************************************************************************)
(* C7.  MouseButton and u32: converting any u32 to a MouseButton yields a  *)
(* button; converting that back yields the number when it is in 0..8; a    *)
(* number outside 0..8 becomes Unknown, whose number is 0.                 *)
(***************************************************************************)
C7_MouseButtonRoundTrip ==
    /\ conv.stage \in {"button", "u32"} =>
          /\ conv.button \in MouseButton
          /\ ~(conv.n \in 0..8) => conv.button = "Unknown"
    /\ conv.stage = "u32" =>
          /\ conv.n \in 0..8 => conv.j = conv.n
          /\ ~(conv.n \in 0..8) => conv.j = 0

\* 2 has come back as 2 by way of Right, or 9 as 0 by way of Unknown.
C7_Witness ==
    /\ conv.stage = "u32"
    /\ \/ conv.n = 2 /\ conv.button = "Right" /\ conv.j = 2
       \/ conv.n = 9 /\ conv.button = "Unknown" /\ conv.j = 0

(***************************************************************************)
(* C8.  Reconstruction is the identity: for an Input or an Event a built   *)
(* by the typed constructor of kind K, K's mapping operation with the      *)
(* visitor that passes the payload back to K's constructor, a itself as    *)
(* old_event, returns Some(Some(b)) with b equal to a.                     *)
(***************************************************************************)
C8_ReconstructionIdentity ==
    \A t \in Threads :
        /\ \A en \in Entries(t) : \A m \in MapOps :
              (BuiltBy(en, ConstructorOf(m)) /\ Reference(en.e)) =>
                  Map(m, en.e, Rebuild(ConstructorOf(m), en.e)) = Some(Some(en.e))
        /\ \A m \in MapOps :
              (/\ Returned(t, m)
               /\ frame[t].f = Rebuild(ConstructorOf(m), Self(t))
               /\ BuiltBy(Newest(t), ConstructorOf(m))
               /\ Reference(Self(t)))
              => ret[t] = Some(Some(Self(t)))

\* resize has rebuilt the resize event of width 1 and height 0.
C8_Witness ==
    /\ pc[1] = "idle"
    /\ frame[1].op = "resize"
    /\ frame[1].f = Rebuild("ResizeEvent::from_width_height", Self(1))
    /\ Newest(1).by = [op |-> "ResizeEvent::from_width_height", w |-> 1, h |-> 0]
    /\ Self(1) = InputEvent(<<"Resize", 1, 0>>)
    /\ ret[1] = Some(Some(Self(1)))

(***************************************************************************)
(* C9.  Context preservation: an event B built from A by a typed           *)
(* constructor, and C built from B by another, are of A's concrete type    *)
(* and hold what A holds beside kind and payload; and a constructor only   *)
(* reads old_event: after the call it is the event it was before.          *)
(***************************************************************************)
\* Event b is of the concrete type of a and holds a's ancillary state.
SameContext(a, b) == b[1] = a[1] /\ ancillary(b) = ancillary(a)

C9_ChainKeepsContext ==
    \A t \in Threads :
        /\ SameContext(origin[t], Self(t))
        /\ frame[t].op \in ConstructorOps =>
              /\ SameContext(origin[t], frame[t].old_event)
              /\ IsSome(ret[t]) => SameContext(frame[t].old_event, ret[t][2])

C9_OldEventKept ==
    \A t \in Threads :
        (frame'[t].op \in ConstructorOps /\ <<frame[t], ev[t]>>' # <<frame[t], ev[t]>>)
            => /\ frame'[t].old_event = Self(t)
               /\ ev'[t] # ev[t] => ev'[t] = Entry(ret'[t][2], frame'[t].call)
               /\ origin'[t] = origin[t]

C9_ContextPreserved == []C9_ChainKeepsContext /\ [][C9_OldEventKept]_vars

\* A host event with context ctx1 has become a resize event and that a
\* relative-motion event, all three with context ctx1.
C9_Witness ==
    /\ origin[1] = HostEvent(FOCUS, AsAny(T_bool, TRUE), "ctx1")
    /\ frame[1].op = "MouseRelativeEvent::from_xy"
    /\ frame[1].old_event = HostEvent(RESIZE, AsAny(T_U32x2, <<1, 0>>), "ctx1")
    /\ ev[1].by.op = "MouseRelativeEvent::from_xy"
    /\ ev[1].e = HostEvent(MOUSE_RELATIVE, AsAny(T_F64x2, <<0, 1>>), "ctx1")

(***************************************************************************)
(* C10.  Concurrent independence: with two threads running calls on events *)
(* of their own, under every interleaving each call returns what it        *)
(* returns when its thread runs alone, and a step of one thread changes    *)
(* nothing the other thread owns.                                          *)
(***************************************************************************)
\* What thread t owns.
Local(t) == <<ev[t], origin[t], pc[t], frame[t], ret[t], visits[t]>>

C10_ResultsAsAlone ==
    \A t \in Threads :
        /\ frame[t] = NoCall => ret[t] = Unit /\ ev[t] = GivenEntry(origin[t])
        /\ (frame[t].op \in MapOps /\ pc[t] \in {"idle", "panicked"})
              => ret[t] = Map(frame[t].op, Self(t), frame[t].f)
        /\ (frame[t].op \in MapOps /\ pc[t] \in {"check", "with_args", "visit"})
              => ret[t] = Pending
        /\ frame[t].op \in ConstructorOps
              => /\ ret[t] = Construct(frame[t].call, frame[t].old_event)
                 /\ IF IsSome(ret[t])
                    THEN Newest(t) = Entry(ret[t][2], frame[t].call)
                    ELSE Self(t) = frame[t].old_event

C10_NoInterference ==
    \A t \in Threads : \A u \in Threads \ {t} :
        Local(t)' # Local(t) => Local(u)' = Local(u)

C10_ConcurrentIndependence ==
    []C10_ResultsAsAlone /\ [][C10_NoInterference]_vars

\* Thread 1 has rebuilt its cursor event while thread 2 is inside resize.
C10_Witness ==
    /\ pc[1] = "idle"
    /\ frame[1].op = "mouse_cursor"
    /\ BuiltBy(Newest(1), "MouseCursorEvent::from_xy")
    /\ ret[1] = Some(Some(Self(1)))
    /\ pc[2] = "with_args"
    /\ frame[2].op = "resize"
    /\ BuiltBy(Newest(2), "ResizeEvent::from_width_height")

(***************************************************************************)
(* C11.  Resize component order: for an Input built by                     *)
(* ResizeEvent::from_width_height(w, h, old_event) with w # h, the resize  *)
(* visitor is passed w first and h second, and resize_args returns [w, h]: *)
(* the width at index 0 and the height at index 1, never swapped.          *)
(***************************************************************************)
\* Entry en is an Input built by from_width_height with unequal sides.
BuiltResize(en) ==
    /\ en.e[1] = "Input"
    /\ BuiltBy(en, "ResizeEvent::from_width_height")
    /\ en.by.w # en.by.h

InMap(t) == pc[t] \in {"check", "with_args", "visit"}

\* The event of thread t has the tag of the mapping operation it called.
TagMatches(t) == event_id(Self(t)) = KindId(frame[t].op)

C12_PayloadOnlyUnderTag ==
    \A t \in Threads :
        frame[t].op \in MapOps =>
            /\ pc[t] \in {"with_args", "visit"} => TagMatches(t)
            /\ InMap(t) => visits[t] = 0
            /\ (~TagMatches(t) /\ pc[t] # "check")
                  => pc[t] = "idle" /\ ret[t] = None /\ visits[t] = 0
            /\ (TagMatches(t) /\ TypeOf(payload(Self(t))) = KindType(frame[t].op)
                 /\ ~InMap(t))
                  => visits[t] = 1 /\ (pc[t] = "idle" => IsSome(ret[t]))

C12_StepsInOrder ==
    \A t \in Threads :
        /\ (pc'[t] = "with_args" /\ pc[t] # "with_args")
              => pc[t] = "check" /\ TagMatches(t)
        /\ (pc'[t] = "visit" /\ pc[t] # "visit") => pc[t] = "with_args"
        /\ visits'[t] > visits[t]
              => pc[t] = "visit" /\ visits'[t] = visits[t] + 1
        /\ InMap(t) => ev'[t] = ev[t] /\ frame'[t] = frame[t]

C12_TagCheckPrecedes == []C12_PayloadOnlyUnderTag /\ [][C12_StepsInOrder]_vars

\* mouse_scroll has returned Some on a scroll event after one visit.
C12_Witness ==
    /\ pc[1] = "idle"
    /\ frame[1].op = "mouse_scroll"
    /\ frame[1].via = "direct"
    /\ BuiltBy(Newest(1), "MouseScrollEvent::from_xy")
    /\ event_id(Self(1)) = MOUSE_SCROLL
    /\ IsSome(ret[1])
    /\ visits[1] = 1

====
